---- MODULE Spec2Model ----
(***************************************************************************)
(* Runtime adapters of the agent templates under src/assets/python:        *)
(* strands, googleadk, openaiagents, langchain_langgraph and crewai, with  *)
(* the model loader model/load.py.                                         *)
(*                                                                         *)
(* One process serves several invocations of the entrypoint `invoke`.      *)
(* Each statement of a handler that reads or writes module-level state, or *)
(* that performs I/O (credential exchange, session-manager setup, remote   *)
(* tool discovery, orchestration call), is one step of that invocation,    *)
(* and the steps of different invocations interleave freely (Spec).  In    *)
(* SeqSpec the invocations are served one after the other.                 *)
(*                                                                         *)
(* Python values are modelled as strings: None is the string "<None>", an  *)
(* object is named by its class and its maker ("Agent@2"), and a dict is   *)
(* a function whose DOMAIN is the set of keys present.                     *)
(***************************************************************************)
EXTENDS Naturals, Sequences, FiniteSets, TLC

\* ------------------------------------------------------------------ bounds
NumInvocations == 2

\* the most events one orchestration stream emits
MaxEvents == 3

Invocations == 1..NumInvocations

\* ------------------------------------------------------- template inputs
Variants == {"strands", "googleadk", "openaiagents", "langchain_langgraph", "crewai"}

\* model/load.py has one block per provider; the OpenAI and Gemini blocks are
\* the Anthropic block with another exported variable (ProviderKeyVar)
ModelProviders == {"Bedrock", "Anthropic"}

None == "<None>"

IDENTITY_ENV_VAR == "AGENT_API_KEY"

DEFAULT_PROMPT == "What can you help me with?"

\* request inputs
Prompts == {"hello"}

SessionIds == {"a", "a/b"}

UserIds == {"c", "b/c"}

\* the processes' environments: LOCAL_DEV unset, or LOCAL_DEV=1 with the
\* credential variable unset, empty or set
Environments ==
    {<<>>,
     [LOCAL_DEV |-> "1"],
     [LOCAL_DEV |-> "1", AGENT_API_KEY |-> ""],
     [LOCAL_DEV |-> "1", AGENT_API_KEY |-> "sk-local"]}

\* outcomes of the remote tool server's discovery
LocalToolNames == <<"add_numbers">>

RemoteToolLists == {<<>>, <<"search">>, <<"add_numbers", "search">>}

\* strands: the events of agent.stream_async: a dict with a "data" key whose
\* value is a string (a text fragment) or not a string, or without that key
StreamEvents ==
    {[data |-> [type |-> "str", value |-> "Hel"]],
     [data |-> [type |-> "str", value |-> "lo"]],
     [data |-> [type |-> "int", value |-> "7"]],
     [result |-> [type |-> "AgentResult", value |-> "Hello"]]}

VARIABLES
    variant,              \* which template the process was generated from
    hasMemory,            \* template flag {{#if hasMemory}} (strands)
    modelProvider,        \* template flag modelProvider (model/load.py)
    os_environ,           \* os.environ
    cache,                \* strands: dict `cache` of agent_factory
    _agent,               \* strands without memory: module global _agent
    _credentials_loaded,  \* googleadk, openaiagents: module global
    _llm,                 \* langchain_langgraph: module global
    mcp_open,             \* openaiagents: the module-level mcp_server is connected
    pc,                   \* position of each invocation in its handler
    payload,              \* payload dict of each invocation
    context,              \* attributes of the context object of each invocation
    frame,                \* local variables of each invocation
    exc,                  \* exception that ended the invocation, or None
    orch,                 \* invocation -> prompt its orchestration call received
    load_calls,           \* number of credential exchanges started
    load_failures,        \* number of credential exchanges that raised
    load_returns,         \* number of load_model() calls that returned
    constructed,          \* cache key -> number of Agent objects constructed
    emitted,              \* strands: events the recorded stream has produced
    delivered             \* strands: fragments the recorded stream's handler has yielded

vars == <<variant, hasMemory, modelProvider, os_environ, cache, _agent,
          _credentials_loaded, _llm, mcp_open, pc, payload, context, frame,
          exc, orch, load_calls, load_failures, load_returns, constructed,
          emitted, delivered>>

stream == <<emitted, delivered>>

config == <<variant, hasMemory, modelProvider>>

\* ----------------------------------------------------------------- helpers
\* dict.get(k, default), os.getenv(k), getattr(obj, k, default)
Get(d, k, default) == IF k \in DOMAIN d THEN d[k] ELSE default

\* d[k] = v
Put(d, k, v) == [x \in DOMAIN d \cup {k} |-> IF x = k THEN v ELSE d[x]]

\* Python truthiness of an optional string: `not v`
Falsy(v) == v = None \/ v = ""

Contains(s, t) == \E n \in 1..Len(s) : n + Len(t) - 1 <= Len(s) /\ SubSeq(s, n, n + Len(t) - 1) = t

EmptyDict == [x \in {} |-> None]

Dicts(keys, vals) == UNION {[ks -> vals] : ks \in SUBSET keys}

EmptyFrame == [model |-> None, new_agent |-> None, agent |-> None,
               mcp_tools |-> <<>>, tools |-> <<>>, result |-> None]

\* the environment variable model/load.py exports the key to
ProviderKeyVar(p) ==
    CASE p = "Anthropic" -> "ANTHROPIC_API_KEY"
      [] p = "OpenAI" -> "OPENAI_API_KEY"
      [] p = "Gemini" -> "GEMINI_API_KEY"
      [] OTHER -> None

MissingKeyError ==
    IDENTITY_ENV_VAR \o " not found. Add " \o IDENTITY_ENV_VAR \o "=your-key to .env.local"

\* _get_api_key(): the set of possible outcomes, the identity broker being
\* free to answer or to fail.
_get_api_key(env) ==
    IF Get(env, "LOCAL_DEV", None) = "1"
    THEN LET api_key == Get(env, IDENTITY_ENV_VAR, None) IN
         IF Falsy(api_key)
         THEN {[ok |-> FALSE, value |-> MissingKeyError]}
         ELSE {[ok |-> TRUE, value |-> api_key]}
    ELSE {[ok |-> TRUE, value |-> "broker-key"],
          [ok |-> FALSE, value |-> "IdentityBrokerError"]}

\* load_model(): outcomes as [ok, value (exception text when not ok), env,
\* exchanged (whether a credential exchange took place)]
load_model(env, provider) ==
    IF provider = "Bedrock"
    THEN {[ok |-> TRUE, value |-> None, env |-> env, exchanged |-> FALSE]}
    ELSE {IF k.ok
          THEN [ok |-> TRUE, value |-> None,
                env |-> Put(env, ProviderKeyVar(provider), k.value), exchanged |-> TRUE]
          ELSE [ok |-> FALSE, value |-> k.value, env |-> env, exchanged |-> TRUE]
          : k \in _get_api_key(env)}

\* strands: session_id, user_id and the cache key of an invocation
session_id(i) == Get(context[i], "session_id", "default-session")

user_id(i) == Get(context[i], "user_id", "default-user")

CacheKey(sid, uid) == sid \o "/" \o uid

key(i) == CacheKey(session_id(i), user_id(i))

\* ------------------------------------------------------------------- Init
Init ==
    /\ variant \in Variants
    /\ hasMemory \in (IF variant = "strands" THEN BOOLEAN ELSE {FALSE})
    /\ modelProvider \in ModelProviders
    /\ os_environ \in (IF modelProvider = "Bedrock" THEN {EmptyDict} ELSE Environments)
    /\ cache = EmptyDict
    /\ _agent = None
    /\ _credentials_loaded = FALSE
    /\ _llm = None
    /\ mcp_open = FALSE
    /\ pc = [i \in Invocations |-> "idle"]
    /\ payload = [i \in Invocations |-> EmptyDict]
    /\ context = [i \in Invocations |-> EmptyDict]
    /\ frame = [i \in Invocations |-> EmptyFrame]
    /\ exc = [i \in Invocations |-> None]
    /\ orch = EmptyDict
    /\ load_calls = 0
    /\ load_failures = 0
    /\ load_returns = 0
    /\ constructed = EmptyDict
    /\ emitted = <<>>
    /\ delivered = <<>>

\* ---------------------------------------------------------------- actions
\* the tool lists of the templates
LocalTools == [n \in DOMAIN LocalToolNames |-> [name |-> LocalToolNames[n], origin |-> "local"]]

RemoteTools(names) == [n \in DOMAIN names |-> [name |-> names[n], origin |-> "remote"]]

\* langchain_langgraph: tools=mcp_tools + tools
MergeTools(mcp_tools, tools) == mcp_tools \o tools

\* an exception leaves the handler
Raise(i, e) ==
    /\ pc' = [pc EXCEPT ![i] = "done"]
    /\ exc' = [exc EXCEPT ![i] = e]

Goto(i, label) == pc' = [pc EXCEPT ![i] = label]

\* the fields of payload and context the variant reads
PayloadKeys == IF variant = "googleadk" THEN {"prompt", "user_id"} ELSE {"prompt"}

ContextKeys ==
    CASE variant = "strands" /\ hasMemory -> {"session_id", "user_id"}
      [] variant = "googleadk" -> {"session_id"}
      [] OTHER -> {}

Payloads ==
    {p \in Dicts(PayloadKeys, Prompts \cup UserIds) :
        /\ Get(p, "prompt", "hello") \in Prompts
        /\ Get(p, "user_id", "c") = "c"}

\* a context carries all the identifiers the variant reads, or none
Contexts ==
    {c \in Dicts(ContextKeys, SessionIds \cup UserIds) :
        /\ Get(c, "session_id", "a") \in SessionIds
        /\ Get(c, "user_id", "c") \in UserIds
        /\ DOMAIN c \in {{}, ContextKeys}
        /\ CacheKey(Get(c, "session_id", "a"), Get(c, "user_id", "c")) # "a/b/b/c"}

\* the statement an invocation starts with
FirstLabel ==
    CASE variant = "strands" -> "get_or_create_agent"
      [] variant = "googleadk" -> "ensure_credentials_loaded"
      [] variant = "openaiagents" -> "ensure_credentials_loaded"
      [] variant = "langchain_langgraph" -> "get_tools"
      [] variant = "crewai" -> "load_model"

\* the statement that follows a load_model() that returned
AfterLoad ==
    CASE variant = "strands" /\ hasMemory -> "session_manager"
      [] variant = "strands" /\ ~hasMemory -> "construct"
      [] variant = "googleadk" -> "set_loaded"
      [] variant = "openaiagents" -> "set_loaded"
      [] variant = "langchain_langgraph" -> "set_llm"
      [] variant = "crewai" -> "orchestrate"

\* the runtime calls the entrypoint with a payload and a context
Start(i) ==
    /\ pc[i] = "idle"
    /\ IF i = 1 THEN TRUE ELSE pc[i - 1] # "idle"
    /\ \E p \in Payloads, c \in Contexts :
        /\ payload' = [payload EXCEPT ![i] = p]
        /\ context' = [context EXCEPT ![i] = c]
    /\ Goto(i, FirstLabel)
    /\ UNCHANGED <<config, stream, os_environ, cache, _agent, _credentials_loaded, _llm,
                   mcp_open, frame, exc, orch, load_calls, load_failures,
                   load_returns, constructed>>

\* a load_model() call whose failure is swallowed: the caller goes on
LoadModel_Swallow(i) ==
    /\ pc[i] = "load_model"
    /\ \E r \in load_model(os_environ, modelProvider) :
        /\ os_environ' = r.env
        /\ load_calls' = load_calls + (IF r.exchanged THEN 1 ELSE 0)
        /\ IF r.ok
           THEN /\ frame' = [frame EXCEPT ![i].model = "LLM@" \o ToString(i)]
                /\ load_returns' = load_returns + 1
                /\ Goto(i, AfterLoad)
                /\ UNCHANGED <<exc, load_failures>>
           ELSE /\ Goto(i, AfterLoad)
                /\ load_failures' = load_failures + 1
                /\ UNCHANGED <<frame, exc, load_returns>>
    /\ UNCHANGED <<config, stream, cache, _agent, _credentials_loaded, _llm, mcp_open,
                   payload, context, orch, constructed>>

\* load_model(), called from every variant
LoadModel(i) ==
    /\ pc[i] = "load_model"
    /\ \E r \in load_model(os_environ, modelProvider) :
        /\ os_environ' = r.env
        /\ load_calls' = load_calls + (IF r.exchanged THEN 1 ELSE 0)
        /\ IF r.ok
           THEN /\ frame' = [frame EXCEPT ![i].model = "LLM@" \o ToString(i)]
                /\ load_returns' = load_returns + 1
                /\ Goto(i, AfterLoad)
                /\ UNCHANGED <<exc, load_failures>>
           ELSE /\ Raise(i, r.value)
                /\ load_failures' = load_failures + 1
                /\ UNCHANGED <<frame, load_returns>>
    /\ UNCHANGED <<config, stream, cache, _agent, _credentials_loaded, _llm, mcp_open,
                   payload, context, orch, constructed>>

\* ---- strands
\* the key under which `constructed` counts the agents of an invocation
AgentKey(i) == IF hasMemory THEN key(i) ELSE "_agent"

\* a lookup that takes every call for a miss
Lookup_AlwaysMiss(i) ==
    /\ variant = "strands"
    /\ pc[i] = "get_or_create_agent"
    /\ Goto(i, "load_model")
    /\ UNCHANGED <<config, stream, os_environ, cache, _agent, _credentials_loaded, _llm,
                   mcp_open, payload, context, frame, exc, orch, load_calls,
                   load_failures, load_returns, constructed>>

\* `if key not in cache:` / `if _agent is None:`
Lookup(i) ==
    /\ variant = "strands"
    /\ pc[i] = "get_or_create_agent"
    /\ IF hasMemory
       THEN IF key(i) \notin DOMAIN cache THEN Goto(i, "load_model") ELSE Goto(i, "return_agent")
       ELSE IF _agent = None THEN Goto(i, "load_model") ELSE Goto(i, "return_agent")
    /\ UNCHANGED <<config, stream, os_environ, cache, _agent, _credentials_loaded, _llm,
                   mcp_open, payload, context, frame, exc, orch, load_calls,
                   load_failures, load_returns, constructed>>

\* a session-manager setup that leaves an empty entry behind when it fails
SessionManager_Residue(i) ==
    /\ variant = "strands"
    /\ pc[i] = "session_manager"
    /\ \/ /\ Goto(i, "construct")
          /\ UNCHANGED <<exc, cache>>
       \/ /\ Raise(i, "SessionManagerError")
          /\ cache' = Put(cache, key(i), None)
    /\ UNCHANGED <<config, stream, os_environ, _agent, _credentials_loaded, _llm,
                   mcp_open, payload, context, frame, orch, load_calls,
                   load_failures, load_returns, constructed>>

\* session_manager=get_memory_session_manager(session_id, user_id)
SessionManager(i) ==
    /\ variant = "strands"
    /\ pc[i] = "session_manager"
    /\ \/ /\ Goto(i, "construct")
          /\ UNCHANGED exc
       \/ Raise(i, "SessionManagerError")
    /\ UNCHANGED <<config, stream, os_environ, cache, _agent, _credentials_loaded, _llm,
                   mcp_open, payload, context, frame, orch, load_calls,
                   load_failures, load_returns, constructed>>

\* Agent(model=..., session_manager=..., tools=tools+[mcp_client])
Construct(i) ==
    /\ variant = "strands"
    /\ pc[i] = "construct"
    /\ frame' = [frame EXCEPT ![i].new_agent = "Agent@" \o ToString(i),
                              ![i].tools = LocalTools \o <<[name |-> "mcp_client", origin |-> "mcp_client"]>>]
    /\ constructed' = Put(constructed, AgentKey(i), Get(constructed, AgentKey(i), 0) + 1)
    /\ Goto(i, "insert")
    /\ UNCHANGED <<config, stream, os_environ, cache, _agent, _credentials_loaded, _llm,
                   mcp_open, payload, context, exc, orch, load_calls,
                   load_failures, load_returns>>

\* cache[key] = ... / _agent = ...
Insert(i) ==
    /\ variant = "strands"
    /\ pc[i] = "insert"
    /\ IF hasMemory
       THEN cache' = Put(cache, key(i), frame[i].new_agent) /\ UNCHANGED _agent
       ELSE _agent' = frame[i].new_agent /\ UNCHANGED cache
    /\ Goto(i, "return_agent")
    /\ UNCHANGED <<config, stream, os_environ, _credentials_loaded, _llm, mcp_open,
                   payload, context, frame, exc, orch, load_calls,
                   load_failures, load_returns, constructed>>

\* return cache[key] / return _agent
ReturnAgent(i) ==
    /\ variant = "strands"
    /\ pc[i] = "return_agent"
    /\ frame' = [frame EXCEPT ![i].agent = IF hasMemory THEN cache[key(i)] ELSE _agent]
    /\ Goto(i, "orchestrate")
    /\ UNCHANGED <<config, stream, os_environ, cache, _agent, _credentials_loaded, _llm,
                   mcp_open, payload, context, exc, orch, load_calls,
                   load_failures, load_returns, constructed>>

\* ---- googleadk, openaiagents
\* ensure_credentials_loaded(): `if not _credentials_loaded:`
EnsureCredentialsLoaded(i) ==
    /\ variant \in {"googleadk", "openaiagents"}
    /\ pc[i] = "ensure_credentials_loaded"
    /\ IF ~_credentials_loaded
       THEN Goto(i, "load_model")
       ELSE Goto(i, IF variant = "googleadk" THEN "create_session" ELSE "mcp_enter")
    /\ UNCHANGED <<config, stream, os_environ, cache, _agent, _credentials_loaded, _llm,
                   mcp_open, payload, context, frame, exc, orch, load_calls,
                   load_failures, load_returns, constructed>>

\* _credentials_loaded = True
SetLoaded(i) ==
    /\ variant \in {"googleadk", "openaiagents"}
    /\ pc[i] = "set_loaded"
    /\ _credentials_loaded' = TRUE
    /\ Goto(i, IF variant = "googleadk" THEN "create_session" ELSE "mcp_enter")
    /\ UNCHANGED <<config, stream, os_environ, cache, _agent, _llm, mcp_open, payload,
                   context, frame, exc, orch, load_calls, load_failures,
                   load_returns, constructed>>

\* googleadk: await session_service.create_session(...); Runner(agent=agent, ...)
\* with the module-level agent, tools=mcp_toolset + [add_numbers]
CreateSession(i) ==
    /\ variant = "googleadk"
    /\ pc[i] = "create_session"
    /\ frame' = [frame EXCEPT ![i].agent = "Agent@0",
                              ![i].tools = <<[name |-> "mcp_toolset", origin |-> "mcp_client"]>> \o LocalTools]
    /\ Goto(i, "orchestrate")
    /\ UNCHANGED <<config, stream, os_environ, cache, _agent, _credentials_loaded, _llm,
                   mcp_open, payload, context, exc, orch, load_calls,
                   load_failures, load_returns, constructed>>

\* openaiagents: `async with mcp_server as server:` connects the module-level
\* server; a failure to connect reaches `except Exception as e: ... raise e`
McpEnter(i) ==
    /\ variant = "openaiagents"
    /\ pc[i] = "mcp_enter"
    /\ \/ /\ mcp_open' = TRUE
          /\ frame' = [frame EXCEPT ![i].tools = LocalTools]
          /\ Goto(i, "orchestrate")
          /\ UNCHANGED exc
       \/ /\ Raise(i, "ToolDiscoveryError")
          /\ UNCHANGED <<mcp_open, frame>>
    /\ UNCHANGED <<config, stream, os_environ, cache, _agent, _credentials_loaded, _llm,
                   payload, context, orch, load_calls, load_failures,
                   load_returns, constructed>>

\* openaiagents: leaving the `async with` block closes the connection; an
\* exception raised inside the block is re-raised by the except clause
McpExit(i) ==
    /\ variant = "openaiagents"
    /\ pc[i] = "mcp_exit"
    /\ mcp_open' = FALSE
    /\ Goto(i, "done")
    /\ UNCHANGED <<config, stream, os_environ, cache, _agent, _credentials_loaded, _llm,
                   payload, context, frame, exc, orch, load_calls,
                   load_failures, load_returns, constructed>>

\* ---- langchain_langgraph
\* mcp_tools = await mcp_client.get_tools()
GetTools(i) ==
    /\ variant = "langchain_langgraph"
    /\ pc[i] = "get_tools"
    /\ \/ /\ \E names \in RemoteToolLists :
                frame' = [frame EXCEPT ![i].mcp_tools = RemoteTools(names)]
          /\ Goto(i, "get_or_create_model")
          /\ UNCHANGED exc
       \/ /\ Raise(i, "ToolDiscoveryError")
          /\ UNCHANGED frame
    /\ UNCHANGED <<config, stream, os_environ, cache, _agent, _credentials_loaded, _llm,
                   mcp_open, payload, context, orch, load_calls, load_failures,
                   load_returns, constructed>>

\* get_or_create_model(): `if _llm is None:`
GetOrCreateModel(i) ==
    /\ variant = "langchain_langgraph"
    /\ pc[i] = "get_or_create_model"
    /\ IF _llm = None THEN Goto(i, "load_model") ELSE Goto(i, "create_react_agent")
    /\ UNCHANGED <<config, stream, os_environ, cache, _agent, _credentials_loaded, _llm,
                   mcp_open, payload, context, frame, exc, orch, load_calls,
                   load_failures, load_returns, constructed>>

\* _llm = load_model()
SetLlm(i) ==
    /\ variant = "langchain_langgraph"
    /\ pc[i] = "set_llm"
    /\ _llm' = frame[i].model
    /\ Goto(i, "create_react_agent")
    /\ UNCHANGED <<config, stream, os_environ, cache, _agent, _credentials_loaded,
                   mcp_open, payload, context, frame, exc, orch, load_calls,
                   load_failures, load_returns, constructed>>

\* `return _llm`; graph = create_react_agent(..., tools=mcp_tools + tools)
CreateReactAgent(i) ==
    /\ variant = "langchain_langgraph"
    /\ pc[i] = "create_react_agent"
    /\ frame' = [frame EXCEPT ![i].model = _llm,
                              ![i].agent = "Graph@" \o ToString(i),
                              ![i].tools = MergeTools(frame[i].mcp_tools, LocalTools)]
    /\ Goto(i, "orchestrate")
    /\ UNCHANGED <<config, stream, os_environ, cache, _agent, _credentials_loaded, _llm,
                   mcp_open, payload, context, exc, orch, load_calls,
                   load_failures, load_returns, constructed>>

\* ---- the orchestration call of every variant
\* strands: payload.get("prompt"); the others:
\* payload.get("prompt", "What can you help me with?")
PromptOf(i) ==
    IF variant = "strands"
    THEN Get(payload[i], "prompt", None)
    ELSE Get(payload[i], "prompt", DEFAULT_PROMPT)

\* runner.run_async / Runner.run / graph.ainvoke / crew.kickoff: returns a
\* result or raises; strands: stream = agent.stream_async(...), which starts
\* the stream the handler then iterates
Orchestrate(i) ==
    /\ pc[i] = "orchestrate"
    /\ orch' = Put(orch, i, PromptOf(i))
    /\ IF variant = "strands"
       THEN /\ Goto(i, "stream")
            /\ UNCHANGED <<frame, exc>>
       ELSE /\ \/ /\ frame' = [frame EXCEPT ![i].result = "answer",
                                  ![i].tools = IF variant = "crewai" THEN LocalTools ELSE @]
                  /\ UNCHANGED exc
               \/ /\ exc' = [exc EXCEPT ![i] = "InvocationError"]
                  /\ UNCHANGED frame
            /\ Goto(i, IF variant = "openaiagents" THEN "mcp_exit" ELSE "done")
    /\ UNCHANGED <<config, stream, os_environ, cache, _agent, _credentials_loaded, _llm,
                   mcp_open, payload, context, load_calls, load_failures,
                   load_returns, constructed>>

\* a test that forwards whatever an event carries as "data"
IsText_AnyData(event) == "data" \in DOMAIN event

\* `"data" in event and isinstance(event["data"], str)`
IsText(event) == "data" \in DOMAIN event /\ event["data"].type = "str"

\* the invocations are interchangeable; the stream of the first one is the
\* stream that emitted and delivered record
Recorded(i) == i = 1

\* strands: `async for event in stream:` receives the next event and yields
\* event["data"] when it is a text fragment
StreamEvent(i) ==
    /\ variant = "strands"
    /\ pc[i] = "stream"
    /\ Recorded(i) => Len(emitted) < MaxEvents
    /\ \E event \in StreamEvents :
        LET yielded == IF IsText(event) THEN <<event["data"].value>> ELSE <<>> IN
        /\ emitted' = IF Recorded(i) THEN Append(emitted, event) ELSE emitted
        /\ delivered' = IF Recorded(i) THEN delivered \o yielded ELSE delivered
    /\ UNCHANGED <<config, os_environ, cache, _agent, _credentials_loaded, _llm,
                   mcp_open, pc, payload, context, frame, exc, orch, load_calls,
                   load_failures, load_returns, constructed>>

\* strands: the stream completes and the loop ends, or the stream raises
StreamEnd(i) ==
    /\ variant = "strands"
    /\ pc[i] = "stream"
    /\ \/ UNCHANGED exc
       \/ exc' = [exc EXCEPT ![i] = "InvocationError"]
    /\ Goto(i, "stream_end")
    /\ UNCHANGED <<config, stream, os_environ, cache, _agent, _credentials_loaded, _llm,
                   mcp_open, payload, context, frame, orch, load_calls,
                   load_failures, load_returns, constructed>>

\* strands: the generator is finished and the runtime closes the response;
\* the record of the stream ends with the invocation
StreamClose(i) ==
    /\ variant = "strands"
    /\ pc[i] = "stream_end"
    /\ emitted' = IF Recorded(i) THEN <<>> ELSE emitted
    /\ delivered' = IF Recorded(i) THEN <<>> ELSE delivered
    /\ Goto(i, "done")
    /\ UNCHANGED <<config, os_environ, cache, _agent, _credentials_loaded, _llm,
                   mcp_open, payload, context, frame, exc, orch, load_calls,
                   load_failures, load_returns, constructed>>

\* the statements at which an invocation waits for I/O
IOLabels == {"load_model", "session_manager", "get_tools", "mcp_enter",
             "create_session", "orchestrate", "stream"}

\* a cancellation that leaves every frame at once, `async with` included
Cancel_NoRelease(i) ==
    /\ pc[i] \in IOLabels
    /\ exc' = [exc EXCEPT ![i] = "CancelledError"]
    /\ Goto(i, IF pc[i] = "stream" THEN "stream_end" ELSE "done")
    /\ UNCHANGED <<config, stream, os_environ, cache, _agent, _credentials_loaded, _llm,
                   mcp_open, payload, context, frame, orch, load_calls,
                   load_failures, load_returns, constructed>>

\* the invocation is canceled while it waits
Cancel(i) ==
    /\ pc[i] \in IOLabels
    /\ exc' = [exc EXCEPT ![i] = "CancelledError"]
    /\ Goto(i, CASE variant = "openaiagents" /\ pc[i] = "orchestrate" -> "mcp_exit"
                  [] pc[i] = "stream" -> "stream_end"
                  [] OTHER -> "done")
    /\ UNCHANGED <<config, stream, os_environ, cache, _agent, _credentials_loaded, _llm,
                   mcp_open, payload, context, frame, orch, load_calls,
                   load_failures, load_returns, constructed>>

\* ------------------------------------------------------------------- Next
\* the statements of a started invocation
Run(i) ==
    \/ LoadModel(i)
    \/ Lookup(i)
    \/ SessionManager(i)
    \/ Construct(i)
    \/ Insert(i)
    \/ ReturnAgent(i)
    \/ EnsureCredentialsLoaded(i)
    \/ SetLoaded(i)
    \/ CreateSession(i)
    \/ McpEnter(i)
    \/ McpExit(i)
    \/ GetTools(i)
    \/ GetOrCreateModel(i)
    \/ SetLlm(i)
    \/ CreateReactAgent(i)
    \/ Orchestrate(i)
    \/ StreamEvent(i)
    \/ StreamEnd(i)
    \/ StreamClose(i)
    \/ Cancel(i)

Next == \E i \in Invocations : Start(i) \/ Run(i)

Spec == Init /\ [][Next]_vars

\* the invocations are served one after the other
Alone(i) == \A j \in Invocations \ {i} : pc[j] \in {"idle", "done"}

SeqStart(i) == Alone(i) /\ Start(i)

SeqNext == \E i \in Invocations : SeqStart(i) \/ Run(i)

SeqSpec == Init /\ [][SeqNext]_vars

\* ------------------------------------------------------------- properties
Keyed == variant = "strands" /\ hasMemory

Resolvers == {"googleadk", "openaiagents", "langchain_langgraph"}

\* the statements of get_or_create_agent between the miss and the return
BuildLabels == {"load_model", "session_manager", "construct", "insert"}

\* the invocation has its agent
HasAgent(i) == frame[i].agent # None

\* the invocation constructed an Agent itself
Built(i) == frame[i].new_agent # None

\* strands: the invocation ended inside get_or_create_agent, by an exception
\* or a cancellation, before it had an agent
FailedInBuild(i) == pc[i] = "done" /\ exc[i] # None /\ ~HasAgent(i)

\* C1: concurrent first calls of get_or_create_agent for one (session_id,
\* user_id) key construct the agent once and all receive the same agent.
C1_SingleFlight ==
    Keyed =>
        /\ \A k \in DOMAIN constructed : constructed[k] <= 1
        /\ \A i, j \in Invocations :
              (HasAgent(i) /\ HasAgent(j) /\ key(i) = key(j)) => frame[i].agent = frame[j].agent

\* C2: concurrent calls of the credential resolver on the unloaded state
\* perform load_model once: as long as no load has failed, at most one
\* load_model call has been made.
C2_SingleLoad ==
    (variant \in Resolvers /\ load_failures = 0) => load_returns <= 1

\* C3: once the cache maps key k to an agent, the entry is never removed or
\* replaced, no invocation builds for k again, and every get_or_create_agent
\* for k returns that agent.
C3_CacheStability ==
    [][Keyed =>
        \A k \in DOMAIN cache :
            /\ k \in DOMAIN cache' /\ cache'[k] = cache[k]
            /\ Get(constructed', k, 0) = Get(constructed, k, 0)
            /\ \A i \in Invocations :
                  key(i)' = k =>
                      /\ pc'[i] \notin BuildLabels
                      /\ HasAgent(i)' => frame'[i].agent = cache[k]]_vars

\* C3 witness: a second invocation for a cached key was served from the cache
C3_Witness ==
    /\ Keyed
    /\ \E i, j \in Invocations :
          /\ i # j /\ key(i) = key(j)
          /\ pc[i] = "done" /\ pc[j] = "done"
          /\ Built(i) /\ ~Built(j)
          /\ frame[j].agent = frame[i].new_agent
          /\ cache[key(j)] = frame[i].new_agent

\* C4: after a credential resolution has failed, no later resolve call
\* performs the credential exchange again.
C4_FatalUntilRestart ==
    [][(variant \in Resolvers /\ load_failures >= 1) => load_calls' = load_calls]_vars

\* C5: in one process run the credential exchange is performed at most once
\* (stated for runs in which no exchange fails).
C5_AtMostOneExchange ==
    load_failures = 0 => load_calls <= 1

\* two entries of a tool list never carry the same name
UniqueNames(t) == \A m, n \in DOMAIN t : t[m].name = t[n].name => m = n

\* C6: the tool list an agent is built with holds one tool per name, and a
\* remote tool never stands where a local tool has the same name.
C6_ToolMerge ==
    \A i \in Invocations :
        /\ UniqueNames(frame[i].tools)
        /\ \A n \in DOMAIN frame[i].tools :
              (\E l \in DOMAIN LocalTools : LocalTools[l].name = frame[i].tools[n].name)
                  => frame[i].tools[n].origin = "local"

\* C7: a failure of remote tool discovery, or of opening the remote tool
\* connection, never ends an invocation: the agent is built with the local
\* tools and the invocation goes on to the orchestration call.
C7_DegradeOnDiscoveryFailure ==
    \A i \in Invocations : exc[i] # "ToolDiscoveryError"

\* C8: in every variant the orchestration call receives the payload's prompt,
\* or "What can you help me with?" when the payload has none.
C8_PromptDefault ==
    \A i \in DOMAIN orch : orch[i] = Get(payload[i], "prompt", DEFAULT_PROMPT)

\* LOCAL_DEV == "1" and the named credential variable unset or empty
LocalKeyMissing ==
    /\ modelProvider # "Bedrock"
    /\ Get(os_environ, "LOCAL_DEV", None) = "1"
    /\ Falsy(Get(os_environ, IDENTITY_ENV_VAR, None))

\* C9: with LOCAL_DEV == "1" and the credential variable unset or empty, an
\* invocation makes no orchestration call, and one that was not canceled ends
\* with an error whose message names the variable.
C9_FatalCredentialError ==
    LocalKeyMissing =>
        \A i \in Invocations :
            /\ i \notin DOMAIN orch
            /\ (pc[i] = "done" /\ exc[i] # "CancelledError") => Contains(exc[i], IDENTITY_ENV_VAR)

\* C10: a construction for key k that raised or was canceled leaves no entry
\* for k in the cache (an entry is always an agent whose construction was
\* completed), and the next get_or_create_agent for k builds again.
C10_NoResidue ==
    Keyed =>
        /\ \A k \in DOMAIN cache :
              \E i \in Invocations : key(i) = k /\ Built(i) /\ cache[k] = frame[i].new_agent
        /\ \A i \in Invocations :
              (FailedInBuild(i) /\ \A j \in Invocations : key(j) = key(i) => ~Built(j))
                  => key(i) \notin DOMAIN cache
        /\ \A i, j \in Invocations :
              (/\ i < j /\ key(i) = key(j)
               /\ FailedInBuild(i)
               /\ \A h \in Invocations : (h < j /\ key(h) = key(i)) => ~Built(h)
               /\ HasAgent(j))
                  => Built(j) /\ frame[j].agent = frame[j].new_agent

\* C10 witness: the construction for a key failed, and the next invocation
\* for that key built the agent and cached it
C10_Witness ==
    /\ Keyed
    /\ \E i, j \in Invocations :
          /\ i < j /\ key(i) = key(j)
          /\ FailedInBuild(i)
          /\ pc[j] = "done" /\ Built(j)
          /\ cache[key(j)] = frame[j].new_agent

\* the string "data" values of a sequence of events, in order
RECURSIVE TextData(_)
TextData(events) ==
    IF events = <<>> THEN <<>>
    ELSE LET e == Head(events) IN
         (IF "data" \in DOMAIN e
          THEN (IF e.data.type = "str" THEN <<e.data.value>> ELSE <<>>)
          ELSE <<>>) \o TextData(Tail(events))

\* C11: the fragments delivered to the caller are exactly the string "data"
\* values of the events emitted so far, in emission order: other events are
\* dropped, and the end of the stream adds nothing.
C11_StreamForwarding == delivered = TextData(emitted)

\* C11 witness: a completed stream of three events, one of them not text,
\* whose two fragments were delivered in order
C11_Witness ==
    \E i \in Invocations :
        /\ Recorded(i) /\ pc[i] = "stream_end" /\ exc[i] = None
        /\ Len(emitted) = 3
        /\ delivered = <<"Hel", "lo">>

\* the statements inside `async with mcp_server as server:`
ScopeLabels == {"orchestrate", "mcp_exit"}

InScope(i) == variant = "openaiagents" /\ pc[i] \in ScopeLabels

\* C12: an invocation that leaves the scope of its remote tool connection, by
\* success, by an orchestration error or by cancellation, leaves the connection
\* closed, and no connection is open while no invocation is inside the scope.
C12_ConnectionRelease ==
    [][/\ \A i \in Invocations : InScope(i) /\ ~InScope(i)' => ~mcp_open'
       /\ (\A i \in Invocations : ~InScope(i)') => ~mcp_open']_vars

\* C12 witness: an invocation canceled during its orchestration call, inside
\* the connection scope, has finished and the connection is closed
C12_Witness ==
    \E i \in Invocations :
        /\ variant = "openaiagents"
        /\ pc[i] = "done" /\ exc[i] = "CancelledError"
        /\ frame[i].tools # <<>>
        /\ ~mcp_open

\* the process-wide credential state the resolver's code can tell apart:
\* `_credentials_loaded` (googleadk, openaiagents), `_llm is None`
\* (langchain_langgraph)
CredentialState ==
    IF variant = "langchain_langgraph"
    THEN (IF _llm = None THEN "Unloaded" ELSE "Loaded")
    ELSE (IF _credentials_loaded THEN "Loaded" ELSE "Unloaded")

\* the statements of invoke that follow the remote tool discovery
PastDiscovery ==
    CASE variant = "langchain_langgraph" ->
             {"get_or_create_model", "load_model", "set_llm", "create_react_agent", "orchestrate"}
      [] variant = "openaiagents" -> {"orchestrate", "mcp_exit"}
      [] OTHER -> {"orchestrate"}

\* C14: while an invocation is inside its remote connection scope, the
\* connection it uses is open: no other invocation's exit closes it.
C14_ConnectionNotShared ==
    \A i \in Invocations : (InScope(i) /\ pc[i] = "orchestrate") => mcp_open

\* C15: no invocation is past its remote tool discovery, or at its
\* orchestration call, while the credential is still unresolved.
C15_PerRequestOrdering ==
    variant \in Resolvers =>
        \A i \in Invocations : pc[i] \in PastDiscovery => CredentialState = "Loaded"

\* C16: the credential state never returns to Unloaded: a set flag or a cached
\* model handle is never cleared, and once a resolution has failed the state
\* is not Unloaded.
C16_CredentialStateMonotonic ==
    [][(variant \in Resolvers) =>
          ((CredentialState = "Loaded" => CredentialState' = "Loaded")
           /\ (load_failures' >= 1 => CredentialState' # "Unloaded"))]_vars

\* C17: without session memory every invocation receives the same agent and
\* at most one agent is constructed.
C17_NoMemorySingleton ==
    (variant = "strands" /\ ~hasMemory) =>
        /\ Get(constructed, "_agent", 0) <= 1
        /\ \A i, j \in Invocations :
              (HasAgent(i) /\ HasAgent(j)) => frame[i].agent = frame[j].agent

\* C18: two requests with different (session_id, user_id) pairs never hold
\* the same cached agent.
C18_SessionKeyInjective ==
    Keyed =>
        \A i, j \in Invocations :
            (/\ HasAgent(i) /\ HasAgent(j)
             /\ <<session_id(i), user_id(i)>> # <<session_id(j), user_id(j)>>)
                => frame[i].agent # frame[j].agent

\* ---- the credential resolver called by overlapping invocations: every
\* invocation runs up to the return of its resolver call
CredentialInit == Init /\ variant \in Resolvers

CredentialRun(i) ==
    \/ EnsureCredentialsLoaded(i)
    \/ GetTools(i)
    \/ GetOrCreateModel(i)
    \/ LoadModel(i)
    \/ SetLoaded(i)
    \/ SetLlm(i)
    \/ Cancel(i)

CredentialNext == \E i \in Invocations : Start(i) \/ CredentialRun(i)

CredentialSpec == CredentialInit /\ [][CredentialNext]_vars

\* C19: the credential state is Loaded only if some load_model call has
\* returned, and a load_model call that raises leaves the flag and the cached
\* model handle as they were.
C19_LoadedFlagSound ==
    /\ [](variant \in Resolvers => (CredentialState = "Loaded" => load_returns >= 1))
    /\ [][load_failures' # load_failures => UNCHANGED <<_credentials_loaded, _llm>>]_vars

\* C19 witness: the load_model call of one invocation raised, the call of
\* another invocation returned, and the state is Loaded
C19_Witness ==
    /\ variant \in Resolvers
    /\ CredentialState = "Loaded"
    /\ load_failures >= 1
    /\ \E i, j \in Invocations :
          /\ pc[i] = "done" /\ exc[i] = "IdentityBrokerError"
          /\ frame[j].model # None

====
